---------------------------- MODULE Spec2Model ----------------------------
(***************************************************************************)
(* A model of idtxl.data.Data (src/idtxl/data.py): the canonical store of  *)
(* realisations (processes x samples x replications), its property 'data'  *)
(* (getter, setter, deleter), set_data with _reorder_data, _set_data_size  *)
(* and _normalise_data, and the extraction of realisations.                *)
(*                                                                         *)
(* A numpy array is a record [shape, val]: shape is the tuple of axis      *)
(* sizes, val maps every index tuple (0-based coordinates) to the value    *)
(* held there.  An axis-order string is a sequence of one-character        *)
(* strings.  Axis numbers and coordinates are 0-based as in the source;    *)
(* TLA+ sequences are 1-based, hence the +1 where a sequence is indexed.   *)
(***************************************************************************)
EXTENDS Integers, Sequences, FiniteSets, TLC

VARIABLES
    obj,    \* the Data object: its attributes
    old,    \* the Data object as it was when the operation in 'call' began
    call,   \* the operation in progress or just finished, with its arguments
    ret     \* what that operation returned or raised

vars == <<obj, old, call, ret>>

-----------------------------------------------------------------------------
(* Bounds of the model.                                                    *)

\* largest axis size of the arrays handed to set_data on a fresh object
MaxDim == 3
\* largest axis size of the arrays used in the life cycle of one object
MaxLifeDim == 2
\* largest numbers of processes, samples and replications of the arrays
\* realisations are extracted from
MaxProcesses == 2
MaxSamples == 3
MaxReplications == 2
\* largest number of samples of the arrays surrogate data is drawn from
MaxPermSamples == 4

\* largest number of estimator objects constructed
MaxObjects == 2
\* largest number of chunks and of rows of one chunk handed to estimate_mult
MaxChunks == 2
MaxChunkSize == 2

-----------------------------------------------------------------------------
(* Sequences and numpy arrays.                                             *)

Range(s) == {s[i] : i \in DOMAIN s}

RECURSIVE Prod(_)
Prod(s) == IF s = <<>> THEN 1 ELSE Head(s) * Prod(Tail(s))

RECURSIVE SeqMax(_)
SeqMax(s) == IF s = <<>> THEN 0
             ELSE LET m == SeqMax(Tail(s)) IN IF Head(s) > m THEN Head(s) ELSE m

\* s with the elements at positions i and j (0-based) exchanged
SwapAt(s, i, j) ==
    [k \in DOMAIN s |-> IF k = i + 1 THEN s[j + 1]
                        ELSE IF k = j + 1 THEN s[i + 1] ELSE s[k]]

\* the index tuples of an array of the given shape
Indices(shape) ==
    {ix \in [DOMAIN shape -> 0..(SeqMax(shape) - 1)] :
        \A k \in DOMAIN shape : ix[k] < shape[k]}

\* position of an index tuple in row-major (C) order, as numpy lays arrays out
RECURSIVE Ravel(_, _)
Ravel(ix, shape) ==
    IF ix = <<>> THEN 0
    ELSE Head(ix) * Prod(Tail(shape)) + Ravel(Tail(ix), Tail(shape))

\* np.arange(base, base + size).reshape(shape)
Arange(shape, base) ==
    [shape |-> shape, val |-> [ix \in Indices(shape) |-> base + Ravel(ix, shape)]]

ndim(a) == Len(a.shape)

\* np.expand_dims(a, axis): a new axis of size 1 at position axis
expand_dims(a, axis) ==
    LET n  == ndim(a)
        sh == SubSeq(a.shape, 1, axis) \o <<1>> \o SubSeq(a.shape, axis + 1, n)
    IN  [shape |-> sh,
         val   |-> [ix \in Indices(sh) |->
                       a.val[SubSeq(ix, 1, axis) \o SubSeq(ix, axis + 2, n + 1)]]]

\* a.swapaxes(i, j)
swapaxes(a, i, j) ==
    LET sh == SwapAt(a.shape, i, j)
    IN  [shape |-> sh, val |-> [ix \in Indices(sh) |-> a.val[SwapAt(ix, i, j)]]]

\* s.index(c): position (0-based) of the first occurrence of c in s
RECURSIVE index(_, _)
index(s, c) == IF Head(s) = c THEN 0 ELSE 1 + index(Tail(s), c)

\* idtxl_utils.swap_chars(s, i_1, i_2): the string with two characters exchanged
swap_chars(s, i_1, i_2) == SwapAt(s, i_1, i_2)

\* whether numpy broadcasts a value of shape src into a target of shape tgt
\* on assignment: src is aligned to the right of tgt, leading axes of size 1
\* in excess are dropped, and every axis of src is 1 or equal to tgt's
RECURSIVE DropLeadingOnes(_, _)
DropLeadingOnes(src, n) ==
    IF Len(src) > n /\ Head(src) = 1 THEN DropLeadingOnes(Tail(src), n) ELSE src

CanAssign(tgt, src) ==
    LET s == DropLeadingOnes(src, Len(tgt))
        d == Len(tgt) - Len(s)
    IN  /\ d >= 0
        /\ \A k \in DOMAIN s : s[k] = 1 \/ s[k] = tgt[k + d]

\* the index tuple at position k of row-major order (np.unravel_index)
RECURSIVE Unravel(_, _)
Unravel(k, shape) ==
    IF shape = <<>> THEN <<>>
    ELSE LET rest == Prod(Tail(shape))
         IN  <<k \div rest>> \o Unravel(k % rest, Tail(shape))

\* the whole of d flattened in row-major order, whatever the process
Flat_every(d, process) ==
    [k \in 1..Prod(d.shape) |-> d.val[Unravel(k - 1, d.shape)]]

\* d[process, ...] flattened in row-major order: d[process, :, :].reshape(1, n)
Flat(d, process) ==
    [k \in 1..Prod(Tail(d.shape)) |->
        d.val[<<process>> \o Unravel(k - 1, Tail(d.shape))]]

RECURSIVE Sum(_)
Sum(s) == IF s = <<>> THEN 0 ELSE Head(s) + Sum(Tail(s))

\* idtxl_utils.standardise(a, dimension=1) of one row of values: every value
\* minus the row's mean, over the row's standard deviation.  With n values of
\* sum S and sum of squares Q, (x - S/n) / sqrt(Q/n - (S/n)^2) is
\* (n*x - S) / sqrt(n*Q - S*S); the value is kept as that numerator and the
\* square of that denominator.
standardise(xs) ==
    LET n == Len(xs)
        S == Sum(xs)
        Q == Sum([k \in DOMAIN xs |-> xs[k] * xs[k]])
    IN  [k \in DOMAIN xs |-> [num |-> n * xs[k] - S, den2 |-> n * Q - S * S]]

-----------------------------------------------------------------------------
(* The Data object.  A Python attribute may be absent: has_data says        *)
(* whether _data exists, has_size whether n_processes, n_samples and       *)
(* n_replications exist (_set_data_size sets the three together).          *)

None == <<>>
NoArray == [shape |-> <<0>>, val |-> <<>>]

Raise(self, error) == [self |-> self, status |-> error, value |-> None]
Return(self, value) == [self |-> self, status |-> "ok", value |-> value]

\* a getter that answers None where no array is stored
data_get_default(self) ==
    IF self.has_data THEN Return(self, self._data) ELSE Return(self, None)

\* the property 'data': its getter
data_get(self) ==
    IF self.has_data THEN Return(self, self._data)
    ELSE Raise(self, "AttributeError")

\* hasattr(self, 'data'): whether the getter returns without AttributeError
hasattr_data(self) == data_get(self).status # "AttributeError"

\* the property 'data': its setter
data_set(self, d) ==
    IF hasattr_data(self) THEN Raise(self, "AttributeError")
    ELSE Return([self EXCEPT !._data = d, !.has_data = TRUE], None)

\* the property 'data': its deleter, del(self._data)
data_del(self) ==
    IF self.has_data
    THEN Return([self EXCEPT !._data = NoArray, !.has_data = FALSE], None)
    ELSE Raise(self, "AttributeError")

n_realisations_repl(self) == self.n_replications

\* n_realisations_samples without the current value
n_realisations_samples_all(self, current_value) == self.n_samples

n_realisations_samples(self, current_value) ==
    IF current_value = None THEN self.n_samples
    ELSE self.n_samples - current_value[2]

\* n_realisations without the replications
n_realisations_one_repl(self, current_value) ==
    n_realisations_samples(self, current_value)

n_realisations(self, current_value) ==
    n_realisations_samples(self, current_value) * n_realisations_repl(self)

_set_data_size(self, data) ==
    [self EXCEPT !.has_size = TRUE,
                 !.n_processes = data.shape[1],
                 !.n_samples = data.shape[2],
                 !.n_replications = data.shape[3]]

\* 'psr' without the characters of dim_order, in the order p, s, r
missing_dims(dim_order) ==
    SelectSeq(<<"p", "s", "r">>, LAMBDA c : c \notin Range(dim_order))

\* the first loop pair of _reorder_data: one trailing axis of size 1 and one
\* character appended per missing dimension
RECURSIVE add_singletons(_, _, _)
add_singletons(data, dim_order, missing) ==
    IF missing = <<>> THEN [data |-> data, dim_order |-> dim_order]
    ELSE add_singletons(expand_dims(data, ndim(data)),
                        Append(dim_order, Head(missing)), Tail(missing))

\* _reorder_data without the bookkeeping of dim_order after the first swap
_reorder_data_stale_order(data, dim_order) ==
    LET full == add_singletons(data, dim_order, missing_dims(dim_order))
        ind_p == index(full.dim_order, "p")
        step1 == IF full.dim_order[1] # "p"
                 THEN [data      |-> swapaxes(full.data, 0, ind_p),
                       dim_order |-> full.dim_order]
                 ELSE full
    IN  IF step1.dim_order[2] # "s"
        THEN swapaxes(step1.data, 1, index(step1.dim_order, "s"))
        ELSE step1.data

\* _reorder_data without its second swap
_reorder_data_first_swap(data, dim_order) ==
    LET full == add_singletons(data, dim_order, missing_dims(dim_order))
        ind_p == index(full.dim_order, "p")
    IN  IF full.dim_order[1] # "p" THEN swapaxes(full.data, 0, ind_p)
        ELSE full.data

_reorder_data(data, dim_order) ==
    LET full == add_singletons(data, dim_order, missing_dims(dim_order))
        ind_p == index(full.dim_order, "p")
        step1 == IF full.dim_order[1] # "p"
                 THEN [data      |-> swapaxes(full.data, 0, ind_p),
                       dim_order |-> swap_chars(full.dim_order, 0, ind_p)]
                 ELSE full
    IN  IF step1.dim_order[2] # "s"
        THEN swapaxes(step1.data, 1, index(step1.dim_order, "s"))
        ELSE step1.data

\* d[process, :, :] has the shape of d without its first axis; reshape(1, n)
\* needs it to hold n values, and the assignment of the (n_samples,
\* n_replications) result into d_standardised[process, :, :] broadcasts
_normalise_data(self, d) ==
    LET sub == Tail(d.shape)
        src == <<self.n_samples, self.n_replications>>
        m   == Len(sub)
    IN  IF Prod(sub) # n_realisations(self, None) THEN Raise(self, "ValueError")
        ELSE IF ~CanAssign(sub, src) THEN Raise(self, "ValueError")
        ELSE Return(self,
              [shape |-> d.shape,
               val   |-> [ix \in Indices(d.shape) |->
                   LET s == standardise(Flat(d, ix[1]))
                       i == IF src[1] = 1 THEN 0 ELSE ix[m]
                       j == IF src[2] = 1 THEN 0 ELSE ix[m + 1]
                   IN  s[i * self.n_replications + j + 1]]])

\* set_data_store without the deletion of the attribute 'data'
set_data_store_keep(self, data, dim_order) ==
    LET data_ordered == _reorder_data(data, dim_order)
        sized == _set_data_size(self, data_ordered)
    IN  IF sized.normalise
        THEN LET n == _normalise_data(sized, data_ordered)
             IN  IF n.status # "ok" THEN Raise(sized, n.status)
                 ELSE data_set(sized, n.value)
        ELSE data_set(sized, data_ordered)

\* set_data past its two checks of dim_order: reorder, set the sizes, delete
\* the attribute 'data' (an AttributeError of the deleter is passed over),
\* normalise if asked to, assign through the setter
set_data_store(self, data, dim_order) ==
    LET data_ordered == _reorder_data(data, dim_order)
        sized   == _set_data_size(self, data_ordered)
        cleared == data_del(sized).self
    IN  IF cleared.normalise
        THEN LET n == _normalise_data(cleared, data_ordered)
             IN  IF n.status # "ok" THEN Raise(cleared, n.status)
                 ELSE data_set(cleared, n.value)
        ELSE data_set(cleared, data_ordered)

\* set_data deleting the attribute 'data' before its checks of dim_order
set_data_clear_first(self, data, dim_order) ==
    LET cleared == data_del(self).self
    IN  IF Len(dim_order) > 3 THEN Raise(cleared, "RuntimeError")
        ELSE IF Len(dim_order) # ndim(data) THEN Raise(cleared, "RuntimeError")
        ELSE set_data_store(cleared, data, dim_order)

set_data(self, data, dim_order) ==
    IF Len(dim_order) > 3 THEN Raise(self, "RuntimeError")
    ELSE IF Len(dim_order) # ndim(data) THEN Raise(self, "RuntimeError")
    ELSE set_data_store(self, data, dim_order)

\* Data(data, dim_order, normalise): __init__
Data(data, dim_order, normalise) ==
    LET self == [normalise |-> normalise,
                 has_data |-> FALSE, _data |-> NoArray,
                 has_size |-> FALSE,
                 n_processes |-> 0, n_samples |-> 0, n_replications |-> 0]
    IN  IF data # None THEN set_data(self, data, dim_order)
        ELSE Return(self, None)

-----------------------------------------------------------------------------
(* Extraction of realisations.  A variable and a current value are pairs   *)
(* <<process index, sample index>>.  A variable list is a record: type is  *)
(* the Python type of the argument ("list" or "tuple"), items its          *)
(* elements.  The matrix returned is a two-axis array, the index vector a  *)
(* sequence.                                                               *)

\* the value standing for nan in an array
NaN == -1

isnan(v) == v = NaN

\* np.arange(n) as a sequence
arange(n) == [k \in 1..n |-> k - 1]

\* the position a bound b of a Python slice denotes in an axis of n items:
\* a negative bound counts from the end, and bounds are clipped to 0..n
slice_bound(b, n) ==
    IF b < 0 THEN (IF b + n < 0 THEN 0 ELSE b + n)
    ELSE IF b > n THEN n ELSE b

\* the samples selected by idx[1]:last_sample on the sample axis, where
\* last_sample = idx[1] - current_value[1], and None (to the end) if that is 0
time_slice(self, idx, current_value) ==
    LET n           == self._data.shape[2]
        last_sample == idx[2] - current_value[2]
        start       == slice_bound(idx[2], n)
        stop        == IF last_sample = 0 THEN n ELSE slice_bound(last_sample, n)
    IN  [start |-> start, len |-> IF stop > start THEN stop - start ELSE 0]

\* one pass of the inner loop: self.data[idx[0], idx[1]:last_sample,
\* replication] is read and assigned to n_real_time rows of the matrix.
\* The stored array has three axes or fewer in the objects modelled here.
retrieve_status(self, idx, current_value, replication, n_real_time) ==
    IF ~self.has_data THEN "AttributeError"
    ELSE IF ndim(self._data) < 3 THEN "IndexError"
    ELSE IF idx[1] < 0 - self._data.shape[1] \/ idx[1] >= self._data.shape[1]
         THEN "IndexError"
    ELSE IF replication < 0 - self._data.shape[3]
            \/ replication >= self._data.shape[3]
         THEN "IndexError"
    ELSE IF ~CanAssign(<<n_real_time>>,
                       <<time_slice(self, idx, current_value).len>>)
         THEN "ValueError"
    ELSE "ok"

\* retrieved with the samples of a block in decreasing time order
retrieved_backwards(self, idx, current_value, replication, j) ==
    LET sl      == time_slice(self, idx, current_value)
        process == IF idx[1] < 0 THEN idx[1] + self._data.shape[1] ELSE idx[1]
        repl    == IF replication < 0 THEN replication + self._data.shape[3]
                   ELSE replication
        sample  == sl.start + (IF sl.len = 1 THEN 0 ELSE sl.len - 1 - j)
    IN  self._data.val[<<process, sample, repl>>]

\* retrieved with a replication that depends on the variable: the one asked
\* for moved on by the variable's process index
retrieved_per_variable(self, idx, current_value, replication, j) ==
    LET sl      == time_slice(self, idx, current_value)
        process == IF idx[1] < 0 THEN idx[1] + self._data.shape[1] ELSE idx[1]
        repl    == (replication + process) % self._data.shape[3]
        sample  == sl.start + (IF sl.len = 1 THEN 0 ELSE j)
    IN  self._data.val[<<process, sample, repl>>]

\* the value the inner loop puts in row j of the block of a replication
retrieved(self, idx, current_value, replication, j) ==
    LET sl      == time_slice(self, idx, current_value)
        process == IF idx[1] < 0 THEN idx[1] + self._data.shape[1] ELSE idx[1]
        repl    == IF replication < 0 THEN replication + self._data.shape[3]
                   ELSE replication
        sample  == sl.start + (IF sl.len = 1 THEN 0 ELSE j)
    IN  self._data.val[<<process, sample, repl>>]

RECURSIVE first_failure(_)
first_failure(statuses) ==
    IF statuses = <<>> THEN "ok"
    ELSE IF Head(statuses) # "ok" THEN Head(statuses)
    ELSE first_failure(Tail(statuses))

\* one pass of the outer loop: the column of one variable is filled block
\* by block, then checked for nan
column_status(self, idx, current_value, replications_order, n_real_time) ==
    LET steps == [k \in DOMAIN replications_order |->
                     retrieve_status(self, idx, current_value,
                                     replications_order[k], n_real_time)]
        f     == first_failure(steps)
    IN  IF f # "ok" THEN f
        ELSE IF \E k \in DOMAIN replications_order, j \in 0..(n_real_time - 1) :
                   isnan(retrieved(self, idx, current_value,
                                   replications_order[k], j))
             THEN "AssertionError"
        ELSE "ok"

\* a check of the sample indices that lets every list pass
indices_before_any(idx_list, current_value) == TRUE

\* all(np.array([x[1] for x in idx_list]) <= current_value[1])
indices_before(idx_list, current_value) ==
    \A k \in DOMAIN idx_list : idx_list[k][2] <= current_value[2]

\* The matrix returned carries, as base, the buffer that holds its values:
\* "data" is the buffer of the stored array, "own" a buffer no other array
\* uses.  A write to an array is a write to its buffer.

\* an allocation that hands out the buffer of the stored array
empty_over_data(shape) == "data"

\* np.empty(shape): the buffer allocated
empty(shape) == "own"

\* cp.copy(a): the values of a in a buffer of its own
copy(a) == [a EXCEPT !.base = "own"]

\* _get_data; permutation is what np.random.permutation(n_replications)
\* answers when shuffle is set
_get_data(self, idx_list, current_value, shuffle, permutation) ==
    IF ~indices_before(idx_list, current_value)
    THEN Raise(self, "RuntimeError")
    ELSE IF ~self.has_size THEN Raise(self, "AttributeError")
    ELSE
      LET n_real_time == n_realisations_samples(self, current_value)
          n_real_repl == n_realisations_repl(self)
          shape       == <<n_real_time * n_real_repl, Len(idx_list)>>
          replications_order ==
              IF shuffle THEN permutation ELSE arange(self.n_replications)
          f == first_failure(
                 [i \in DOMAIN idx_list |->
                     column_status(self, idx_list[i], current_value,
                                   replications_order, n_real_time)])
          realisations ==
              [shape |-> shape,
               base  |-> empty(shape),
               val   |-> [ix \in Indices(shape) |->
                   retrieved(self, idx_list[ix[2] + 1], current_value,
                             replications_order[(ix[1] \div n_real_time) + 1],
                             ix[1] % n_real_time)]]
          replications_index ==
              [k \in 1..(Len(replications_order) * n_real_time) |->
                  replications_order[((k - 1) \div n_real_time) + 1]]
      IN  IF shape[1] < 0 THEN Raise(self, "ValueError")
          ELSE IF f # "ok" THEN Raise(self, f)
          ELSE IF Len(replications_index) # shape[1]
               THEN Raise(self, "AssertionError")
          ELSE Return(self, [realisations       |-> realisations,
                             replications_index |-> replications_index])

\* get_realisations taking any sequence of variables
get_realisations_any(self, current_value, idx_list) ==
    _get_data(self, idx_list.items, current_value, FALSE, <<>>)

get_realisations(self, current_value, idx_list) ==
    IF idx_list.type # "list" THEN Raise(self, "TypeError")
    ELSE _get_data(self, idx_list.items, current_value, FALSE, <<>>)

\* permute_replications with the first replication drawn for every block
permute_replications_repeated(self, current_value, idx_list, permutation) ==
    IF idx_list.type # "list" THEN Raise(self, "TypeError")
    ELSE _get_data(self, idx_list.items, current_value, TRUE,
                   [k \in DOMAIN permutation |-> 0])

\* permutation is the order np.random.permutation(n_replications) answers
permute_replications(self, current_value, idx_list, permutation) ==
    IF idx_list.type # "list" THEN Raise(self, "TypeError")
    ELSE _get_data(self, idx_list.items, current_value, TRUE, permutation)

\* sum(replication_idx == replication): the number of entries of the vector
\* that equal replication
count_equal(replication_idx, replication) ==
    Cardinality({k \in DOMAIN replication_idx :
                    replication_idx[k] = replication})

\* the rows a mask replication_idx == replication selects, in increasing
\* order (1-based positions)
RECURSIVE mask_rows(_, _, _)
mask_rows(replication_idx, replication, k) ==
    IF k > Len(replication_idx) THEN <<>>
    ELSE (IF replication_idx[k] = replication THEN <<k>> ELSE <<>>)
             \o mask_rows(replication_idx, replication, k + 1)

\* permute_samples_checks asking for more realisations per replication than
\* the perm_range
permute_samples_checks_strict(self, current_value, idx_list, perm_range) ==
    LET g == get_realisations(self, current_value, idx_list)
    IN  IF g.status # "ok" THEN g
        ELSE
          LET n_per_repl == count_equal(g.value.replications_index, 0)
          IN  IF perm_range.type # "str" /\ ~(perm_range.int > 1)
              THEN Raise(self, "AssertionError")
              ELSE IF perm_range.type = "str" /\ perm_range.str # "max"
              THEN Raise(self, "ValueError")
              ELSE
                LET range == IF perm_range.type = "str" THEN n_per_repl
                             ELSE perm_range.int
                IN  IF perm_range.type # "str" /\ ~(n_per_repl > range)
                    THEN Raise(self, "AssertionError")
                    ELSE Return(self, [realisations    |-> g.value.realisations,
                                       replication_idx |-> g.value.replications_index,
                                       n_per_repl      |-> n_per_repl,
                                       perm_range      |-> range])

\* permute_samples up to the drawing of the permutation: the extraction and
\* the checks of perm_range.  A perm_range is a record: type "str" with
\* the string, or type "int" with the integer.  Answers n_per_repl and the perm_range in force.
permute_samples_checks(self, current_value, idx_list, perm_range) ==
    LET g == get_realisations(self, current_value, idx_list)
    IN  IF g.status # "ok" THEN g
        ELSE
          LET n_per_repl == count_equal(g.value.replications_index, 0)
          IN  IF perm_range.type # "str" /\ ~(perm_range.int > 1)
              THEN Raise(self, "AssertionError")
              ELSE IF perm_range.type = "str" /\ perm_range.str # "max"
              THEN Raise(self, "ValueError")
              ELSE
                LET range == IF perm_range.type = "str" THEN n_per_repl
                             ELSE perm_range.int
                IN  IF ~(n_per_repl >= range)
                    THEN Raise(self, "AssertionError")
                    ELSE Return(self, [realisations    |-> g.value.realisations,
                                       replication_idx |-> g.value.replications_index,
                                       n_per_repl      |-> n_per_repl,
                                       perm_range      |-> range])

\* a choice of positions that takes the first position every time
build_perm_first(n_per_repl, perm_range, draws) == [k \in 1..n_per_repl |-> 0]

\* a permutation of the whole replication whatever the perm_range: the
\* positions in reverse
build_perm_reversed(n_per_repl, perm_range, draws) ==
    [k \in 1..n_per_repl |-> n_per_repl - k]

\* the permutation built from the answers of np.random.permutation, in the
\* order of the calls: one call for the whole replication, or one per block
\* of perm_range positions and one for the remainder
build_perm(n_per_repl, perm_range, draws) ==
    IF perm_range = n_per_repl THEN draws[1]
    ELSE LET full == n_per_repl \div perm_range
         IN  [k \in 1..n_per_repl |->
                 LET block == (k - 1) \div perm_range
                 IN  IF block < full
                     THEN draws[block + 1][((k - 1) % perm_range) + 1]
                              + block * perm_range
                     ELSE draws[full + 1][k - full * perm_range]
                              + full * perm_range]

\* permute_rows with a permutation of its own for every replication but the
\* first: the positions of perm counted from the end
permute_rows_each(self, checked, draws) ==
    LET realisations      == checked.realisations
        realisations_perm == copy(realisations)
        replication_idx   == checked.replication_idx
        perm == build_perm(checked.n_per_repl, checked.perm_range, draws)
        from(k) ==
            LET rows == mask_rows(replication_idx, replication_idx[k], 1)
                pos  == CHOOSE i \in DOMAIN rows : rows[i] = k
                p    == IF replication_idx[k] = 0 THEN perm[pos]
                        ELSE checked.n_per_repl - 1 - perm[pos]
            IN  [row |-> rows[p + 1], perm |-> p]
    IN  Return(self,
          [realisations_perm |->
              [shape |-> realisations_perm.shape,
               base  |-> realisations_perm.base,
               val   |-> [ix \in Indices(realisations.shape) |->
                   realisations.val[<<from(ix[1] + 1).row - 1, ix[2]>>]]],
           perm_idx |->
              [k \in DOMAIN replication_idx |-> from(k).perm]])

\* permute_samples from the copy of the matrix on: checked is what
\* permute_samples_checks answered (the matrix, the replication index,
\* n_per_repl and the perm_range in force), draws the answers of
\* np.random.permutation
permute_rows(self, checked, draws) ==
    LET realisations      == checked.realisations
        realisations_perm == copy(realisations)
        replication_idx   == checked.replication_idx
        perm == build_perm(checked.n_per_repl, checked.perm_range, draws)
        \* the row that row k (1-based) of the result is taken from
        from(k) ==
            LET rows == mask_rows(replication_idx, replication_idx[k], 1)
                pos  == CHOOSE i \in DOMAIN rows : rows[i] = k
            IN  [row |-> rows[perm[pos] + 1], perm |-> perm[pos]]
    IN  Return(self,
          [realisations_perm |->
              [shape |-> realisations_perm.shape,
               base  |-> realisations_perm.base,
               val   |-> [ix \in Indices(realisations.shape) |->
                   realisations.val[<<from(ix[1] + 1).row - 1, ix[2]>>]]],
           perm_idx |->
              [k \in DOMAIN replication_idx |-> from(k).perm]])

\* permute_samples; draws are the answers of np.random.permutation.  The
\* outcome c of the extraction and the checks is bound once and used by all
\* that follows.
permute_samples(self, current_value, idx_list, perm_range, draws) ==
    CHOOSE r \in
        {IF c.status # "ok" THEN c ELSE permute_rows(self, c.value, draws) :
            c \in {permute_samples_checks(self, current_value, idx_list,
                                          perm_range)}} : TRUE

-----------------------------------------------------------------------------
(* Inputs.                                                                  *)

\* 'x' stands for every character that is none of 'p', 's', 'r'
Chars == {"p", "s", "r", "x"}

\* the shapes of rank 1, 2 and 3 with axes of size 1..maxdim
Shapes(maxdim) == UNION {[1..n -> 1..maxdim] : n \in 1..3}

Arrays(maxdim) == {Arange(shape, 0) : shape \in Shapes(maxdim)}

\* every string of up to four characters
DimOrders == UNION {[1..n -> Chars] : n \in 0..4}

\* the strings used in the life cycle of one object: well-formed ones of
\* each length, malformed ones (a repeated character, a foreign character)
\* and one that is too long
LifeOrders ==
    { <<"s">>, <<"x">>,
      <<"p", "s">>, <<"s", "p">>, <<"p", "p">>, <<"s", "s">>,
      <<"p", "s", "r">>, <<"r", "s", "p">>, <<"s", "p", "r">>, <<"p", "s", "x">>,
      <<"p", "s", "r", "p">> }

LifeArrays == Arrays(MaxLifeDim)

\* the values assigned to the attribute 'data' directly: one array of each rank
AssignedArrays ==
    {Arange(<<2>>, 0), Arange(<<1, 2>>, 0), Arange(<<2, 1, 2>>, 0)}

\* every array with every string of its rank, and with two strings of
\* another length
LifeInputs ==
    {in \in [data : LifeArrays, dim_order : LifeOrders] :
        \/ Len(in.dim_order) = ndim(in.data)
        \/ in.dim_order \in {<<"p", "s">>, <<"p", "s", "r", "p">>}}

-----------------------------------------------------------------------------
(* The life cycle of one Data object.  An operation is called when none is  *)
(* in progress; Done is its caller going on, the result dropped.            *)

Idle == call.op = "idle"

Outcome(r) == [status |-> r.status, value |-> r.value]

Init ==
    /\ \E normalise \in BOOLEAN : obj = Data(None, <<"p", "s", "r">>, normalise).self
    /\ old = obj
    /\ call = [op |-> "idle"]
    /\ ret = [status |-> "none", value |-> None]

\* d.set_data(data, dim_order)
SetData ==
    /\ Idle
    /\ \E in \in LifeInputs :
         LET r == set_data(obj, in.data, in.dim_order)
         IN  /\ obj' = r.self
             /\ call' = [op |-> "set_data", data |-> in.data,
                         dim_order |-> in.dim_order]
             /\ ret' = Outcome(r)
    /\ old' = obj

\* d.data = x
AssignData ==
    /\ Idle
    /\ \E x \in AssignedArrays :
         LET r == data_set(obj, x)
         IN  /\ obj' = r.self
             /\ call' = [op |-> "assign", data |-> x]
             /\ ret' = Outcome(r)
    /\ old' = obj

\* del d.data
DeleteData ==
    /\ Idle
    /\ LET r == data_del(obj)
       IN  /\ obj' = r.self
           /\ call' = [op |-> "delete"]
           /\ ret' = Outcome(r)
    /\ old' = obj

\* d.data
ReadData ==
    /\ Idle
    /\ LET r == data_get(obj)
       IN  /\ obj' = r.self
           /\ call' = [op |-> "get"]
           /\ ret' = Outcome(r)
    /\ old' = obj

Done ==
    /\ ~Idle
    /\ call' = [op |-> "idle"]
    /\ ret' = [status |-> "none", value |-> None]
    /\ old' = obj
    /\ obj' = obj

Next == SetData \/ AssignData \/ DeleteData \/ ReadData \/ Done

Spec == Init /\ [][Next]_vars

-----------------------------------------------------------------------------
(* set_data on a fresh object, for every array and every string.            *)

SetDataFresh ==
    /\ Idle
    /\ ~obj.has_size /\ ~obj.has_data
    /\ \E data \in Arrays(MaxDim), dim_order \in DimOrders :
         LET r == set_data(obj, data, dim_order)
         IN  /\ obj' = r.self
             /\ call' = [op |-> "set_data", data |-> data, dim_order |-> dim_order]
             /\ ret' = Outcome(r)
    /\ old' = obj

NextSet == SetDataFresh

SpecSet == Init /\ [][NextSet]_vars


-----------------------------------------------------------------------------
(* Extraction from an object constructed with an array, or with none.       *)

\* the array with nan as the last sample of process 0 in replication 0
WithNaN(a) == [a EXCEPT !.val[<<0, a.shape[2] - 1, 0>>] = NaN]

GetShapes ==
    {<<p, s, r>> : p \in 1..MaxProcesses, s \in 1..MaxSamples,
                   r \in 1..MaxReplications}

\* np.arange arrays of every shape, and those of the largest number of
\* replications with a nan
GetArrays ==
    {Arange(shape, 0) : shape \in GetShapes}
        \cup {WithNaN(Arange(shape, 0)) :
                 shape \in {sh \in GetShapes : sh[3] = MaxReplications}}

\* current values: the sample index from one below the first sample to one
\* above the number of samples
CurrentValues(self) == {<<0, t>> : t \in -1..(self.n_samples + 1)}

\* variables: process and sample index in the range of the array, just
\* outside it on either side, and negative within the array's size
Variables(self) ==
    {<<p, o>> : p \in {0 - self.n_processes - 1, -1, 0,
                        self.n_processes - 1, self.n_processes},
                o \in -1..(self.n_samples + 1)}

\* lists of no, one and two variables, and tuples of one variable
IdxLists(self) ==
    {[type |-> "list", items |-> <<>>]}
        \cup {[type |-> "list", items |-> <<v>>] : v \in Variables(self)}
        \cup {[type |-> "list", items |-> <<v, w>>] :
                 v \in Variables(self), w \in Variables(self)}
        \cup {[type |-> "tuple", items |-> <<v>>] : v \in Variables(self)}

InitGet ==
    /\ \/ obj \in {Data(a, <<"p", "s", "r">>, FALSE).self : a \in GetArrays}
       \/ obj = Data(None, <<"p", "s", "r">>, FALSE).self
    /\ old = obj
    /\ call = [op |-> "idle"]
    /\ ret = [status |-> "none", value |-> None]

\* d.get_realisations(current_value, idx_list)
GetRealisations ==
    /\ Idle
    /\ \E current_value \in CurrentValues(obj), idx_list \in IdxLists(obj) :
         LET r == get_realisations(obj, current_value, idx_list)
         IN  /\ obj' = r.self
             /\ call' = [op |-> "get_realisations",
                         current_value |-> current_value, idx_list |-> idx_list]
             /\ ret' = Outcome(r)
    /\ old' = obj

\* what a method that reads the counts answers: the counts do not exist
\* before the first set_data
counted(self, value) ==
    IF self.has_size THEN Return(self, value) ELSE Raise(self, "AttributeError")

\* current values, and None for the argument left out
OptionalValues(self) == CurrentValues(self) \cup {None}

\* d.n_realisations_samples(current_value)
CountSamples ==
    /\ Idle
    /\ \E current_value \in OptionalValues(obj) :
         LET r == counted(obj, n_realisations_samples(obj, current_value))
         IN  /\ obj' = r.self
             /\ call' = [op |-> "n_realisations_samples",
                         current_value |-> current_value]
             /\ ret' = Outcome(r)
    /\ old' = obj

\* d.n_realisations_repl()
CountReplications ==
    /\ Idle
    /\ LET r == counted(obj, n_realisations_repl(obj))
       IN  /\ obj' = r.self
           /\ call' = [op |-> "n_realisations_repl"]
           /\ ret' = Outcome(r)
    /\ old' = obj

\* d.n_realisations(current_value)
CountRealisations ==
    /\ Idle
    /\ \E current_value \in OptionalValues(obj) :
         LET r == counted(obj, n_realisations(obj, current_value))
         IN  /\ obj' = r.self
             /\ call' = [op |-> "n_realisations",
                         current_value |-> current_value]
             /\ ret' = Outcome(r)
    /\ old' = obj

NextGet ==
    GetRealisations \/ CountSamples \/ CountReplications \/ CountRealisations
        \/ Done

SpecGet == InitGet /\ [][NextGet]_vars

-----------------------------------------------------------------------------
(* Extraction and surrogate data: get_realisations, permute_replications    *)
(* and permute_samples on an object constructed with an array, or with      *)
(* none.  What np.random.permutation answers is chosen with the call.       *)

\* the permutations of 0..m-1, as np.random.permutation(m) may answer
random_permutation(m) ==
    {q \in [1..m -> 0..(m - 1)] : \A i, j \in 1..m : q[i] = q[j] => i = j}

SurrogateShapes ==
    {<<MaxProcesses, s, r>> : s \in 1..MaxPermSamples, r \in 1..MaxReplications}

SurrogateArrays ==
    {Arange(shape, 0) : shape \in SurrogateShapes}
        \cup {WithNaN(Arange(<<MaxProcesses, MaxPermSamples, MaxReplications>>, 0))}

\* current values from the first sample to one above the number of samples
SurrogateValues(self) == {<<0, t>> : t \in 0..(self.n_samples + 1)}

\* variables of the first and the last process and of one process too many
SurrogateVariables(self) ==
    {<<p, o>> : p \in {0, self.n_processes - 1, self.n_processes},
                o \in 0..self.n_samples}

\* no variable, one variable, one variable and the first sample of process
\* 0, and a tuple in place of a list
SurrogateLists(self) ==
    {[type |-> "list", items |-> <<>>]}
        \cup {[type |-> "list", items |-> <<v>>] : v \in SurrogateVariables(self)}
        \cup {[type |-> "list", items |-> <<v, <<0, 0>>>>] :
                 v \in SurrogateVariables(self)}
        \cup {[type |-> "tuple", items |-> <<<<0, 0>>>>]}

\* 'max', another string, and the integers from 0 to one above the number
\* of samples
PermRanges(self) ==
    {[type |-> "str", str |-> "max"], [type |-> "str", str |-> "all"]}
        \cup {[type |-> "int", int |-> b] : b \in 0..(self.n_samples + 1)}

\* the answers np.random.permutation may give to the calls permute_samples
\* makes for n_per_repl realisations and a perm_range
permutation_draws(n_per_repl, perm_range) ==
    IF perm_range = n_per_repl THEN {<<q>> : q \in random_permutation(n_per_repl)}
    ELSE LET full      == n_per_repl \div perm_range
             remainder == n_per_repl % perm_range
         IN  {blocks \o last :
                 blocks \in [1..full -> random_permutation(perm_range)],
                 last \in IF remainder > 0
                          THEN {<<q>> : q \in random_permutation(remainder)}
                          ELSE {<<>>}}

InitSurrogates ==
    /\ \/ obj \in {Data(a, <<"p", "s", "r">>, FALSE).self : a \in SurrogateArrays}
       \/ obj = Data(None, <<"p", "s", "r">>, FALSE).self
    /\ old = obj
    /\ call = [op |-> "idle"]
    /\ ret = [status |-> "none", value |-> None]

\* d.get_realisations(current_value, idx_list)
Extract ==
    /\ Idle
    /\ \E current_value \in SurrogateValues(obj), idx_list \in SurrogateLists(obj) :
         LET r == get_realisations(obj, current_value, idx_list)
         IN  /\ obj' = r.self
             /\ call' = [op |-> "get_realisations",
                         current_value |-> current_value, idx_list |-> idx_list]
             /\ ret' = Outcome(r)
    /\ old' = obj

\* d.permute_replications(current_value, idx_list)
PermuteReplications ==
    /\ Idle
    /\ \E current_value \in SurrogateValues(obj), idx_list \in SurrogateLists(obj),
          permutation \in random_permutation(obj.n_replications) :
         LET r == permute_replications(obj, current_value, idx_list, permutation)
         IN  /\ obj' = r.self
             /\ call' = [op |-> "permute_replications",
                         current_value |-> current_value, idx_list |-> idx_list]
             /\ ret' = Outcome(r)
    /\ old' = obj

\* d.permute_samples(current_value, idx_list, perm_range)
PermuteSamples ==
    /\ Idle
    /\ \E current_value \in SurrogateValues(obj), idx_list \in SurrogateLists(obj),
          perm_range \in PermRanges(obj) :
         LET c == permute_samples_checks(obj, current_value, idx_list, perm_range)
         IN  \E draws \in IF c.status = "ok"
                          THEN permutation_draws(c.value.n_per_repl,
                                                 c.value.perm_range)
                          ELSE {<<>>} :
               LET r == permute_samples(obj, current_value, idx_list,
                                        perm_range, draws)
               IN  /\ obj' = r.self
                   /\ call' = [op |-> "permute_samples",
                               current_value |-> current_value,
                               idx_list |-> idx_list, perm_range |-> perm_range]
                   /\ ret' = Outcome(r)
    /\ old' = obj

\* the caller writes to the matrix it was handed: m[0, 0] += 1, which is a
\* write to the first cell of the matrix's buffer
ModifyReturned ==
    /\ call.op \in {"get_realisations", "permute_replications", "permute_samples"}
    /\ ret.status = "ok"
    /\ LET field == IF call.op = "permute_samples" THEN "realisations_perm"
                    ELSE "realisations"
           m     == ret.value[field]
       IN  /\ Indices(m.shape) # {}
           /\ ret' = [ret EXCEPT !.value[field].val[<<0, 0>>] = @ + 1]
           /\ obj' = IF m.base = "data"
                     THEN [obj EXCEPT !._data.val[<<0, 0, 0>>] = m.val[<<0, 0>>] + 1]
                     ELSE obj
    /\ call' = [op |-> "modify", of |-> call.op]
    /\ old' = old

NextSurrogates ==
    Extract \/ PermuteReplications \/ PermuteSamples \/ ModifyReturned \/ Done

SpecSurrogates == InitSurrogates /\ [][NextSurrogates]_vars

-----------------------------------------------------------------------------
(* set_data on a fresh object for arrays whose processes hold different     *)
(* series of values, handed over in several axis orders.                    *)

\* the k-th value of a series: increasing, squares plus one, or constant
Series(kind, k) ==
    CASE kind = "linear"   -> k
      [] kind = "square"   -> k * k + 1
      [] kind = "constant" -> 5

SeriesKinds == {"linear", "square", "constant"}

\* the canonical array (processes x samples x replications) in which process
\* p holds the series kinds[p + 1]
SeriesArray(shape, kinds) ==
    [shape |-> shape,
     val   |-> [ix \in Indices(shape) |->
                   Series(kinds[ix[1] + 1], ix[2] * shape[3] + ix[3])]]

\* one replication or as many as can be
SeriesShapes ==
    {<<p, s, r>> : p \in 1..MaxProcesses, s \in 1..MaxLifeDim, r \in {1, MaxLifeDim}}

SeriesArrays(shape) ==
    {SeriesArray(shape, kinds) : kinds \in [1..shape[1] -> SeriesKinds]}

\* the axis orders arrays are handed over in
SeriesOrders ==
    { <<"p", "s", "r">>, <<"r", "s", "p">>, <<"s", "r", "p">>, <<"s", "p">> }

\* position (1-based) of a character among 'p', 's', 'r'
AxisOf(c) == CASE c = "p" -> 1 [] c = "s" -> 2 [] c = "r" -> 3

\* the array a caller holds whose axes are in the order dim_order and whose
\* canonical form is the array canonical (an axis that dim_order leaves out
\* has size 1 in canonical)
Handed(canonical, dim_order) ==
    LET shape == [k \in DOMAIN dim_order |-> canonical.shape[AxisOf(dim_order[k])]]
    IN  [shape |-> shape,
         val   |-> [ix \in Indices(shape) |->
             canonical.val[[a \in 1..3 |->
                 IF \E k \in DOMAIN dim_order : AxisOf(dim_order[k]) = a
                 THEN ix[CHOOSE k \in DOMAIN dim_order : AxisOf(dim_order[k]) = a]
                 ELSE 0]]]]

\* an order can describe a canonical array if no axis it leaves out has more
\* than one element
CanHand(canonical, dim_order) ==
    \A a \in 1..3 :
        (\A k \in DOMAIN dim_order : AxisOf(dim_order[k]) # a)
            => canonical.shape[a] = 1

SetDataSeries ==
    /\ Idle
    /\ ~obj.has_size /\ ~obj.has_data
    /\ \E shape \in SeriesShapes, dim_order \in SeriesOrders :
         \E canonical \in SeriesArrays(shape) :
            /\ CanHand(canonical, dim_order)
            /\ LET data == Handed(canonical, dim_order)
                   r    == set_data(obj, data, dim_order)
               IN  /\ obj' = r.self
                   /\ call' = [op |-> "set_data", data |-> data,
                               dim_order |-> dim_order]
                   /\ ret' = Outcome(r)
    /\ old' = obj

NextSeries == SetDataSeries

SpecSeries == Init /\ [][NextSeries]_vars

-----------------------------------------------------------------------------
(* The estimator classes.  The state is the attributes of the four classes *)
(* and the objects whose __init__ has run.  An attribute of a class is a   *)
(* bound method (types.MethodType(func, cls)) or is not set.                *)

ClassNames == {"Estimator", "Estimator_te", "Estimator_cmi", "Estimator_mi"}

\* the attributes the model follows
AttrNames == {"estimate", "is_parallel"}

\* the module an estimator class takes its functions from
module_of(cls) ==
    CASE cls = "Estimator_te"  -> "estimators_te"
      [] cls = "Estimator_cmi" -> "estimators_cmi"
      [] cls = "Estimator_mi"  -> "estimators_mi"

\* the estimator functions of a module
module_functions(module) ==
    CASE module = "estimators_te"  -> {"jidt_kraskov"}
      [] module = "estimators_cmi" -> {"jidt_kraskov", "opencl_kraskov"}
      [] module = "estimators_mi"  -> {"jidt_kraskov", "opencl_kraskov"}

Unset == [set |-> FALSE, module |-> "", name |-> "", cls |-> ""]

\* types.MethodType(func, cls): func with cls bound as its first argument
MethodType(func, cls) ==
    [set |-> TRUE, module |-> func.module, name |-> func.name, cls |-> cls]

\* Estimator.addMethodAs(func, new_name), called on cls or on one of its
\* objects; new_name is None or the one-element sequence of the name
addMethodAs(state, cls, func, new_name) ==
    LET name == IF new_name = None THEN func.name ELSE new_name[1]
    IN  Return([state EXCEPT !.classes[cls][name] = MethodType(func, cls)], None)

\* Estimator.removeMethod(name), called on cls: delattr(cls, name)
removeMethod(state, cls, name) ==
    IF ~state.classes[cls][name].set THEN Raise(state, "AttributeError")
    ELSE Return([state EXCEPT !.classes[cls][name] = Unset], None)

\* the attribute name of an object of class cls: the objects carry none of
\* these attributes themselves, so the class is asked, then its base class
class_attribute(state, cls, name) ==
    IF state.classes[cls][name].set THEN state.classes[cls][name]
    ELSE state.classes["Estimator"][name]

\* Estimator.__init__: the name is_parallel is bound nowhere in the module,
\* so evaluating the argument of addMethodAs raises NameError
Estimator_init(state) == Raise(state, "NameError")

\* Estimator_te / Estimator_cmi / Estimator_mi (estimator_name): __init__ on
\* a new object of class cls
Estimator_new(state, cls, estimator_name) ==
    LET blank == [cls |-> cls, has_name |-> FALSE, estimator_name |-> ""]
        named == [cls |-> cls, has_name |-> TRUE, estimator_name |-> estimator_name]
    IN  IF estimator_name \notin module_functions(module_of(cls))
        THEN Raise([state EXCEPT !.objects = Append(@, blank)], "AttributeError")
        ELSE LET estimator == [module |-> module_of(cls), name |-> estimator_name]
                 attached  == addMethodAs([state EXCEPT !.objects = Append(@, named)],
                                          cls, estimator, <<"estimate">>).self
             IN  Estimator_init(attached)

\* self.get_estimator()
get_estimator(state, self) ==
    IF self.has_name THEN Return(state, self.estimator_name)
    ELSE Raise(state, "AttributeError")

\* estimators_mi.is_parallel(self, estimator_name)
is_parallel(estimator_name) ==
    CASE estimator_name = "opencl_kraskov" -> Return(None, TRUE)
      [] estimator_name = "jidt_kraskov"   -> Return(None, FALSE)
      [] OTHER                             -> Raise(None, "KeyError")

\* the parameters of the functions of estimators_mi, and those with a default
parameters(func) ==
    IF func.name = "is_parallel" THEN <<"self", "estimator_name">>
    ELSE <<"self", "var1", "var2", "opts">>

defaulted(func) == IF func.name = "is_parallel" THEN {} ELSE {"opts"}

\* whether a call with n_positional positional arguments and the given
\* keyword arguments binds to the parameters of func; Python raises TypeError
\* where it does not
binds(func, n_positional, keywords) ==
    LET params == parameters(func)
        left   == (n_positional + 1)..Len(params)
    IN  /\ n_positional <= Len(params)
        /\ \A k \in keywords : \E i \in left : params[i] = k
        /\ \A i \in left : params[i] \in keywords \/ params[i] \in defaulted(func)

\* np.tile(a, (n_chunks, 1)) of a two-dimensional array
tile(a, n_chunks) ==
    LET shape == <<n_chunks * a.shape[1], a.shape[2]>>
    IN  [shape |-> shape,
         val   |-> [ix \in Indices(shape) |-> a.val[<<ix[1] % a.shape[1], ix[2]>>]]]

\* for k in re_use: data[k] = np.tile(data[k], (n_chunks, 1))
RECURSIVE tile_re_used(_, _, _)
tile_re_used(data, re_use, n_chunks) ==
    IF re_use = <<>> THEN Return(data, None)
    ELSE IF Head(re_use) \notin DOMAIN data THEN Raise(data, "KeyError")
    ELSE tile_re_used([data EXCEPT ![Head(re_use)] = tile(@, n_chunks)],
                      Tail(re_use), n_chunks)

\* data.keys()[0]: the keys of a dict are a view, which has no subscript
first_key(data) == Raise(data, "TypeError")

\* self.estimate_mult(n_chunks, options, re_use, **data).  A bound method
\* found on the class is called as it is, with the class as first argument.
estimate_mult(state, self, n_chunks, options, re_use, data) ==
    LET parallel == class_attribute(state, self.cls, "is_parallel")
        estimate == class_attribute(state, self.cls, "estimate")
    IN  IF ~parallel.set THEN Raise(state, "AttributeError")
        ELSE IF ~self.has_name THEN Raise(state, "AttributeError")
        ELSE IF ~binds(parallel, 2, {}) THEN Raise(state, "TypeError")
        ELSE IF is_parallel(self.estimator_name).status # "ok"
             THEN Raise(state, is_parallel(self.estimator_name).status)
        ELSE IF is_parallel(self.estimator_name).value
        THEN LET tiled == tile_re_used(data, re_use, n_chunks)
             IN  IF tiled.status # "ok" THEN Raise(state, tiled.status)
                 ELSE IF ~estimate.set THEN Raise(state, "AttributeError")
                 ELSE IF ~binds(estimate, 2, DOMAIN tiled.self \cup {"n_chunks", "opts"})
                      THEN Raise(state, "TypeError")
                 ELSE Return(state, [estimator |-> estimate, data |-> tiled.self,
                                     n_chunks |-> 1, opts |-> options])
        ELSE Raise(state, first_key(data).status)

-----------------------------------------------------------------------------
(* Constructions, attachments and estimations, in any order.                *)

\* estimator names asked for, one of which no module has
EstimatorNames == {"jidt_kraskov", "opencl_kraskov", "kernel"}

\* a variable of n rows and one column holding base, base + 1, ...
Realisations(n, base) == Arange(<<n, 1>>, base)

\* the variables handed to estimate_mult: var1 holds all chunks, var2 all
\* chunks or one chunk
ChunkData(n_chunks, chunk_size) ==
    { [var1 |-> Realisations(n_chunks * chunk_size, 0),
       var2 |-> Realisations(rows, 10)] : rows \in {chunk_size, n_chunks * chunk_size} }

ReUse == { <<>>, <<"var2">>, <<"var3">> }

InitEstimators ==
    /\ obj = [classes |-> [c \in ClassNames |-> [a \in AttrNames |-> Unset]],
              objects |-> <<>>]
    /\ old = obj
    /\ call = [op |-> "idle"]
    /\ ret = [status |-> "none", value |-> None]

\* Estimator_te(name), Estimator_cmi(name), Estimator_mi(name)
Construct ==
    /\ Idle
    /\ Len(obj.objects) < MaxObjects
    /\ \E cls \in ClassNames \ {"Estimator"}, estimator_name \in EstimatorNames :
         LET r == Estimator_new(obj, cls, estimator_name)
         IN  /\ obj' = r.self
             /\ call' = [op |-> "construct", cls |-> cls,
                         estimator_name |-> estimator_name]
             /\ ret' = Outcome(r)
    /\ old' = obj

\* cls.addMethodAs(estimators_mi.is_parallel, new_name)
AttachIsParallel ==
    /\ Idle
    /\ \E cls \in {"Estimator", "Estimator_mi"}, named \in BOOLEAN :
         LET func == [module |-> "estimators_mi", name |-> "is_parallel"]
             r    == IF named THEN addMethodAs(obj, cls, func, <<"is_parallel">>)
                     ELSE addMethodAs(obj, cls, func, None)
         IN  /\ obj' = r.self
             /\ call' = [op |-> "addMethodAs", cls |-> cls, named |-> named]
             /\ ret' = Outcome(r)
    /\ old' = obj

\* cls.removeMethod(name)
RemoveMethod ==
    /\ Idle
    /\ \E cls \in {"Estimator", "Estimator_mi"}, name \in AttrNames :
         LET r == removeMethod(obj, cls, name)
         IN  /\ obj' = r.self
             /\ call' = [op |-> "removeMethod", cls |-> cls, name |-> name]
             /\ ret' = Outcome(r)
    /\ old' = obj

\* o.get_estimator()
GetEstimator ==
    /\ Idle
    /\ \E o \in DOMAIN obj.objects :
         LET r == get_estimator(obj, obj.objects[o])
         IN  /\ obj' = r.self
             /\ call' = [op |-> "get_estimator", self |-> o]
             /\ ret' = Outcome(r)
    /\ old' = obj

\* o.estimate_mult(n_chunks, None, re_use, var1=..., var2=...) on an object
\* of Estimator_mi
EstimateMult ==
    /\ Idle
    /\ \E o \in DOMAIN obj.objects, n_chunks \in 1..MaxChunks,
          chunk_size \in 1..MaxChunkSize, re_use \in ReUse :
         \E data \in ChunkData(n_chunks, chunk_size) :
            /\ obj.objects[o].cls = "Estimator_mi"
            /\ LET r == estimate_mult(obj, obj.objects[o], n_chunks, None,
                                      re_use, data)
               IN  /\ obj' = r.self
                   /\ call' = [op |-> "estimate_mult", self |-> o,
                               n_chunks |-> n_chunks, chunk_size |-> chunk_size,
                               re_use |-> re_use, data |-> data]
                   /\ ret' = Outcome(r)
    /\ old' = obj

NextEstimators ==
    Construct \/ AttachIsParallel \/ RemoveMethod \/ GetEstimator
        \/ EstimateMult \/ Done

SpecEstimators == InitEstimators /\ [][NextEstimators]_vars

-----------------------------------------------------------------------------
(* Properties.                                                              *)

\* a string of 'p', 's', 'r', each at most once
WellFormed(dim_order) ==
    /\ Range(dim_order) \subseteq {"p", "s", "r"}
    /\ \A i, j \in DOMAIN dim_order : dim_order[i] = dim_order[j] => i = j

\* a well-formed string with one character per axis of the array
Describes(dim_order, data) ==
    WellFormed(dim_order) /\ Len(dim_order) = ndim(data)

\* the size of the array along the axis the string declares c, 1 if none
AxisSize(data, dim_order, c) ==
    IF c \in Range(dim_order) THEN data.shape[index(dim_order, c) + 1] ELSE 1

\* the canonical axis (1-based: p, s, r) of a character
CanonicalAxis(c) == CASE c = "p" -> 1 [] c = "s" -> 2 [] c = "r" -> 3

\* the input coordinates of the value that belongs at stored[ix]
SourceIndex(dim_order, ix) ==
    [k \in DOMAIN dim_order |-> ix[CanonicalAxis(dim_order[k])]]

\* C1: after set_data(array, dim_order) with a well-formed string of the
\* array's rank, n_processes, n_samples and n_replications are the array's
\* sizes along the axes declared 'p', 's' and 'r', and 1 for an absent one.
C1_CountsMatchDeclaredAxes ==
    (call.op = "set_data" /\ Describes(call.dim_order, call.data)) =>
        /\ ret.status = "ok"
        /\ obj.has_size
        /\ obj.n_processes = AxisSize(call.data, call.dim_order, "p")
        /\ obj.n_samples = AxisSize(call.data, call.dim_order, "s")
        /\ obj.n_replications = AxisSize(call.data, call.dim_order, "r")

C1_Witness ==
    /\ call.op = "set_data"
    /\ call.dim_order = <<"r", "p">>
    /\ call.data.shape = <<2, 3>>
    /\ ret.status = "ok"
    /\ obj.n_processes = 3 /\ obj.n_samples = 1 /\ obj.n_replications = 2

\* C2: with normalise=False and a well-formed string of the array's rank,
\* the stored array has three axes and stored[p, s, r] is the input element
\* at coordinate p along the axis declared 'p', s along 's', r along 'r'.
C2_ReorderMovesValues ==
    (call.op = "set_data" /\ ~obj.normalise
        /\ Describes(call.dim_order, call.data)) =>
        /\ ret.status = "ok"
        /\ obj.has_data
        /\ obj._data.shape = << AxisSize(call.data, call.dim_order, "p"),
                                AxisSize(call.data, call.dim_order, "s"),
                                AxisSize(call.data, call.dim_order, "r") >>
        /\ \A ix \in Indices(obj._data.shape) :
              obj._data.val[ix] = call.data.val[SourceIndex(call.dim_order, ix)]

C2_Witness ==
    /\ call.op = "set_data"
    /\ ~obj.normalise
    /\ call.dim_order = <<"s", "r", "p">>
    /\ call.data.shape = <<2, 3, 2>>
    /\ obj.has_data
    /\ obj._data.shape = <<2, 2, 3>>
    /\ obj._data.val[<<1, 0, 2>>] = call.data.val[<<0, 2, 1>>]
    /\ obj._data.val[<<1, 0, 2>>] = 5

\* C3: whenever an array is stored, n_processes, n_samples and
\* n_replications exist and are the stored array's sizes along axes 0, 1, 2.
C3_CountsFollowArray ==
    obj.has_data =>
        /\ obj.has_size
        /\ ndim(obj._data) >= 3
        /\ obj.n_processes = obj._data.shape[1]
        /\ obj.n_samples = obj._data.shape[2]
        /\ obj.n_replications = obj._data.shape[3]

\* C4: in every state a direct assignment to 'data' is rejected with an
\* error and changes nothing.
C4_DirectAssignmentRejected ==
    call.op = "assign" => (ret.status = "AttributeError" /\ obj = old)

\* C5: set_data raises when dim_order has more than three characters or its
\* length differs from the array's number of axes, with the stored array
\* and the counts as they were.
C5_LengthErrorsChangeNothing ==
    (call.op = "set_data"
        /\ (Len(call.dim_order) > 3 \/ Len(call.dim_order) # ndim(call.data))) =>
        (ret.status = "RuntimeError" /\ obj = old)

C5_Witness ==
    /\ call.op = "set_data"
    /\ Len(call.dim_order) = 2
    /\ ndim(call.data) = 3
    /\ ret.status = "RuntimeError"
    /\ old.has_data /\ old.has_size
    /\ obj = old

\* C6: set_data rejects every malformed string (a foreign character, a
\* repeated character) with an error, the stored array and the counts as
\* they were.
C6_MalformedOrderRejected ==
    (call.op = "set_data" /\ ~WellFormed(call.dim_order)) =>
        (ret.status = "RuntimeError" /\ obj = old)

\* C7: a set_data call that fails leaves the stored array and the three
\* counts as they were before the call.
C7_FailedSetDataChangesNothing ==
    (call.op = "set_data" /\ ret.status # "ok") => obj = old

\* C8 as stated: reading 'data' succeeds in every state and returns the
\* array stored.
C8_ReadAlwaysSucceeds ==
    call.op = "get" => (ret.status = "ok" /\ ret.value = obj._data)

\* C8 as amended: reading 'data' changes nothing; it returns the stored
\* array where one is stored and raises AttributeError where none is.
C8_ReadReturnsStoredArray ==
    call.op = "get" =>
        /\ obj = old
        /\ IF old.has_data
           THEN ret.status = "ok" /\ ret.value = old._data
           ELSE ret.status = "AttributeError"

C8_Witness ==
    /\ call.op = "get"
    /\ ret.status = "ok"
    /\ obj.has_size
    /\ ret.value.shape = <<obj.n_processes, obj.n_samples, obj.n_replications>>
    /\ obj.n_samples = 2

\* what a fresh Data object with the same normalise flag holds after the
\* set_data call in 'call'
FreshResult ==
    set_data(Data(None, <<"p", "s", "r">>, old.normalise).self,
             call.data, call.dim_order)

\* C9: a set_data call that passes the checks of dim_order leaves the
\* object, whatever it held, as a fresh object is left by the same call:
\* the same stored array, the same counts, the same outcome.
C9_SetDataReplacesWholesale ==
    (call.op = "set_data" /\ Len(call.dim_order) <= 3
        /\ Len(call.dim_order) = ndim(call.data)) =>
        (obj = FreshResult.self /\ ret.status = FreshResult.status)

C9_Witness ==
    /\ call.op = "set_data"
    /\ ret.status = "ok"
    /\ old.has_data /\ old.has_size
    /\ obj.has_data
    /\ old._data # obj._data
    /\ old.n_samples # obj.n_samples
    /\ obj = FreshResult.self

\* one of the three extraction calls
ExtractionCall ==
    call.op \in {"get_realisations", "permute_replications", "permute_samples"}

\* a variable of the object: a process of the array at a sample index from 0
IsVariable(self, idx) ==
    /\ 0 <= idx[1] /\ idx[1] < self.n_processes
    /\ 0 <= idx[2]

\* an object holding a three-axis array without nan that its counts describe
HoldsData(self) ==
    /\ self.has_data /\ self.has_size
    /\ self._data.shape = <<self.n_processes, self.n_samples, self.n_replications>>
    /\ \A ix \in Indices(self._data.shape) : ~isnan(self._data.val[ix])

\* a get_realisations call on such an object with a current value at t,
\* 0 <= t <= S, and a non-empty list of variables with sample indices <= t
ExtractsVariables ==
    /\ call.op = "get_realisations"
    /\ call.idx_list.type = "list"
    /\ call.idx_list.items # <<>>
    /\ HoldsData(old)
    /\ 0 <= call.current_value[2] /\ call.current_value[2] <= old.n_samples
    /\ \A k \in DOMAIN call.idx_list.items :
          /\ IsVariable(old, call.idx_list.items[k])
          /\ call.idx_list.items[k][2] <= call.current_value[2]

\* the same request made of any of the three extraction calls
ValidRequest ==
    /\ ExtractionCall
    /\ call.idx_list.type = "list"
    /\ call.idx_list.items # <<>>
    /\ HoldsData(old)
    /\ 0 <= call.current_value[2] /\ call.current_value[2] <= old.n_samples
    /\ \A k \in DOMAIN call.idx_list.items :
          /\ IsVariable(old, call.idx_list.items[k])
          /\ call.idx_list.items[k][2] <= call.current_value[2]

\* what get_realisations answers to the request in 'call'
Unpermuted == get_realisations(old, call.current_value, call.idx_list)

\* row i (0-based) of a matrix, as the sequence of its entries
Row(matrix, i) == [c \in 1..matrix.shape[2] |-> matrix.val[<<i, c - 1>>]]

\* how many rows among those of 'rows' (0-based) of the matrix equal row
RowCount(matrix, rows, row) ==
    Cardinality({i \in rows : Row(matrix, i) = row})

\* the two matrices hold the same rows, each as many times
SameRows(a, b) ==
    /\ a.shape = b.shape
    /\ \A i \in 0..(a.shape[1] - 1) :
          RowCount(a, 0..(a.shape[1] - 1), Row(a, i))
              = RowCount(b, 0..(b.shape[1] - 1), Row(a, i))

\* C10: with S samples, R replications and a current value at t, 0 <= t <= S,
\* get_realisations for a non-empty list of variables with sample indices
\* <= t returns a matrix of (S-t)*R rows and one column per variable, column
\* c holding values of the process of the c-th variable, and an index vector
\* of (S-t)*R entries.
C10_RowsPerRealisation ==
    ExtractsVariables =>
        LET rows  == (old.n_samples - call.current_value[2]) * old.n_replications
            items == call.idx_list.items
        IN  /\ ret.status = "ok"
            /\ ret.value.realisations.shape = <<rows, Len(items)>>
            /\ Len(ret.value.replications_index) = rows
            /\ \A ix \in Indices(<<rows, Len(items)>>) :
                  \E s \in 0..(old.n_samples - 1),
                     r \in 0..(old.n_replications - 1) :
                     ret.value.realisations.val[ix] =
                         old._data.val[<<items[ix[2] + 1][1], s, r>>]

C10_Witness ==
    /\ ExtractsVariables
    /\ old.n_samples = 3 /\ old.n_replications = 2
    /\ call.current_value = <<0, 1>>
    /\ call.idx_list.items = <<<<1, 0>>, <<0, 1>>>>
    /\ ret.status = "ok"
    /\ ret.value.realisations.shape = <<4, 2>>
    /\ Len(ret.value.replications_index) = 4

\* C11: with n = S - t, for every replication r, every 0 <= j < n and every
\* variable c = (p_c, o_c) of the list, the entry of get_realisations' matrix
\* in row r*n + j and column c is stored[p_c, o_c + j, r], and entry r*n + j
\* of the index vector is r.
C11_ReplicationMajorTimeMinor ==
    ExtractsVariables =>
        LET n     == old.n_samples - call.current_value[2]
            items == call.idx_list.items
        IN  /\ ret.status = "ok"
            /\ \A r \in 0..(old.n_replications - 1), j \in 0..(n - 1) :
                  /\ \A c \in DOMAIN items :
                        ret.value.realisations.val[<<r * n + j, c - 1>>] =
                            old._data.val[<<items[c][1], items[c][2] + j, r>>]
                  /\ ret.value.replications_index[r * n + j + 1] = r

C11_Witness ==
    /\ ExtractsVariables
    /\ old.n_samples = 3 /\ old.n_replications = 2 /\ old.n_processes = 2
    /\ call.current_value = <<0, 1>>
    /\ call.idx_list.items = <<<<1, 0>>, <<0, 1>>>>
    /\ ret.status = "ok"
    /\ ret.value.replications_index = <<0, 0, 1, 1>>
    /\ ret.value.realisations.val[<<3, 0>>] = old._data.val[<<1, 1, 1>>]
    /\ ret.value.realisations.val[<<3, 1>>] = old._data.val[<<0, 2, 1>>]
    /\ ret.value.realisations.val[<<3, 0>>] = 9

\* the case n = 1 of C11: one row per replication, index vector 0..R-1
C11_OneRowPerReplication ==
    /\ ExtractsVariables
    /\ old.n_samples = 3 /\ old.n_replications = 2
    /\ call.current_value[2] = 2
    /\ ret.status = "ok"
    /\ ret.value.realisations.shape[1] = 2
    /\ ret.value.replications_index = <<0, 1>>

\* C12: get_realisations, permute_replications and permute_samples, given a
\* list in which some variable's sample index is greater than the current
\* value's, raise the out-of-range error (RuntimeError) and return nothing.
C12_LaterVariableRejected ==
    (ExtractionCall /\ call.idx_list.type = "list"
        /\ \E k \in DOMAIN call.idx_list.items :
              call.idx_list.items[k][2] > call.current_value[2]) =>
        /\ ret.status = "RuntimeError"
        /\ ret.value = None
        /\ obj = old

C12_Witness ==
    /\ call.op = "permute_samples"
    /\ call.idx_list = [type |-> "list", items |-> <<<<0, 4>>, <<0, 0>>>>]
    /\ call.current_value = <<0, 2>>
    /\ old.has_data /\ old.n_samples = 4
    /\ ret.status = "RuntimeError"

\* a request on an object holding data that names a process index outside
\* 0..n_processes-1 or a sample index (of a variable or of the current value)
\* outside 0..n_samples-1
OutOfRangeRequest ==
    /\ ExtractionCall
    /\ call.idx_list.type = "list"
    /\ HoldsData(old)
    /\ \/ call.current_value[2] \notin 0..(old.n_samples - 1)
       \/ \E k \in DOMAIN call.idx_list.items :
             \/ call.idx_list.items[k][1] \notin 0..(old.n_processes - 1)
             \/ call.idx_list.items[k][2] \notin 0..(old.n_samples - 1)

\* C13: an extraction request with a process index or a sample index outside
\* the array, below the range or above it, fails with an out-of-range error
\* (IndexError, or the RuntimeError of the check of the sample indices).
C13_OutOfRangeRejected ==
    OutOfRangeRequest => ret.status \in {"IndexError", "RuntimeError"}

\* a request with a negative process index that is answered with the data of
\* another process
C13_NegativeIndexAnswered ==
    /\ OutOfRangeRequest
    /\ call.idx_list.items = <<<<-1, 0>>>>
    /\ call.current_value = <<0, 1>>
    /\ old.n_processes = 2 /\ old.n_samples = 3 /\ old.n_replications = 2
    /\ ret.status = "ok"
    /\ ret.value.realisations.val[<<0, 0>>] = old._data.val[<<1, 0, 0>>]

\* C14: permute_replications returns the rows get_realisations returns for
\* the same request, each as many times, and its index vector is made of R
\* blocks of S - t equal entries, the blocks' entries being a permutation of
\* the replications 0..R-1.
C14_ReplicationBlocksReordered ==
    (call.op = "permute_replications" /\ ValidRequest) =>
        LET n == old.n_samples - call.current_value[2]
            R == old.n_replications
        IN  /\ ret.status = "ok"
            /\ SameRows(ret.value.realisations, Unpermuted.value.realisations)
            /\ Len(ret.value.replications_index) = n * R
            /\ \E q \in random_permutation(R) :
                  \A k \in 0..(R - 1), j \in 0..(n - 1) :
                     ret.value.replications_index[k * n + j + 1] = q[k + 1]

C14_Witness ==
    /\ call.op = "permute_replications" /\ ValidRequest
    /\ old.n_samples = 4 /\ old.n_replications = 2
    /\ call.current_value = <<0, 2>>
    /\ call.idx_list.items = <<<<1, 1>>, <<0, 0>>>>
    /\ ret.status = "ok"
    /\ ret.value.replications_index = <<1, 1, 0, 0>>
    /\ ret.value.realisations # Unpermuted.value.realisations
    /\ Row(ret.value.realisations, 0) = Row(Unpermuted.value.realisations, 2)

\* the rows (0-based) of replication r in a matrix of n rows per replication
RowsOf(r, n) == (r * n)..(r * n + n - 1)

\* how many of the given rows of the matrix hold v in column c (0-based)
ValueCount(matrix, rows, c, v) ==
    Cardinality({i \in rows : matrix.val[<<i, c>>] = v})

\* C15: for every replication r and every column c, the rows of replication
\* r of the matrix permute_samples returns hold in column c the values the
\* rows of replication r of get_realisations' matrix hold there, each as many
\* times; perm_range='max' is always accepted.
C15_ValuesKeptPerReplication ==
    (call.op = "permute_samples" /\ ValidRequest) =>
        LET n == old.n_samples - call.current_value[2]
            a == Unpermuted.value.realisations
        IN  /\ call.perm_range = [type |-> "str", str |-> "max"]
                  => ret.status = "ok"
            /\ ret.status = "ok" =>
                 /\ ret.value.realisations_perm.shape = a.shape
                 /\ \A r \in 0..(old.n_replications - 1),
                       c \in 0..(a.shape[2] - 1) :
                     \A i \in RowsOf(r, n) :
                       ValueCount(ret.value.realisations_perm, RowsOf(r, n), c,
                                  a.val[<<i, c>>])
                           = ValueCount(a, RowsOf(r, n), c, a.val[<<i, c>>])

C15_Witness ==
    /\ call.op = "permute_samples" /\ ValidRequest
    /\ old.n_samples = 4 /\ old.n_replications = 2
    /\ call.current_value = <<0, 0>>
    /\ call.idx_list.items = <<<<1, 0>>, <<0, 0>>>>
    /\ call.perm_range = [type |-> "int", int |-> 2]
    /\ ret.status = "ok"
    /\ ret.value.perm_idx = <<1, 0, 3, 2, 1, 0, 3, 2>>
    /\ ret.value.realisations_perm # Unpermuted.value.realisations

\* a permute_samples call with an integer block size b, 2 <= b < n_per_repl
PermutesInBlocks ==
    /\ call.op = "permute_samples" /\ ValidRequest
    /\ call.perm_range.type = "int"
    /\ 2 <= call.perm_range.int
    /\ call.perm_range.int < old.n_samples - call.current_value[2]

\* C16: with an integer block size b, 2 <= b < n_per_repl, the row at
\* position t of a replication comes from a position of the same block
\* floor(t / b) of that replication (the last n_per_repl mod b positions
\* being a block of their own), and every position is used exactly once.
C16_BlocksNotCrossed ==
    PermutesInBlocks =>
        LET n == old.n_samples - call.current_value[2]
            b == call.perm_range.int
            a == Unpermuted.value.realisations
        IN  /\ ret.status = "ok"
            /\ \A r \in 0..(old.n_replications - 1) :
                  /\ \A t \in 0..(n - 1) :
                        LET from == ret.value.perm_idx[r * n + t + 1]
                        IN  /\ from \in 0..(n - 1)
                            /\ from \div b = t \div b
                            /\ Row(ret.value.realisations_perm, r * n + t)
                                   = Row(a, r * n + from)
                  /\ {ret.value.perm_idx[r * n + t + 1] : t \in 0..(n - 1)}
                         = 0..(n - 1)

\* three positions per replication in blocks of two: the first two
\* exchanged, the third, a block of its own, in place
C16_Witness ==
    /\ PermutesInBlocks
    /\ old.n_samples = 4 /\ old.n_replications = 2
    /\ call.current_value = <<0, 1>>
    /\ call.idx_list.items = <<<<1, 1>>, <<0, 0>>>>
    /\ call.perm_range.int = 2
    /\ ret.status = "ok"
    /\ ret.value.perm_idx = <<1, 0, 2, 1, 0, 2>>
    /\ Row(ret.value.realisations_perm, 0) = Row(Unpermuted.value.realisations, 1)

\* a permute_samples call with an integer perm_range whose extraction succeeds
PermutesWithInteger ==
    /\ call.op = "permute_samples" /\ ValidRequest
    /\ call.perm_range.type = "int"

\* C17 as stated: an integer perm_range of 1 or less fails with the
\* configuration error (AssertionError), one above the number of
\* realisations per replication fails with it, nothing being returned, and
\* one equal to that number is accepted.
C17_RangeChecked ==
    PermutesWithInteger =>
        LET n == old.n_samples - call.current_value[2]
            b == call.perm_range.int
        IN  /\ b <= 1 => (ret.status = "AssertionError" /\ ret.value = None)
            /\ b > n => (ret.status = "AssertionError" /\ ret.value = None)
            /\ b = n => ret.status = "ok"

\* C17 as amended: as above, a perm_range equal to the number of
\* realisations per replication being accepted if it is 2 or more.
C17_RangeCheckedFromTwo ==
    PermutesWithInteger =>
        LET n == old.n_samples - call.current_value[2]
            b == call.perm_range.int
        IN  /\ b <= 1 => (ret.status = "AssertionError" /\ ret.value = None)
            /\ b > n => (ret.status = "AssertionError" /\ ret.value = None)
            /\ (b = n /\ b >= 2) =>
                  /\ ret.status = "ok"
                  /\ ret.value.realisations_perm.shape
                         = Unpermuted.value.realisations.shape

C17_Witness ==
    /\ PermutesWithInteger
    /\ old.n_samples = 4
    /\ call.current_value = <<0, 1>>
    /\ call.perm_range.int = 3
    /\ ret.status = "ok"
    /\ ret.value.perm_idx[1] = 2

\* one realisation per replication and perm_range = 1: rejected
C17_OneOfOneRejected ==
    /\ PermutesWithInteger
    /\ old.n_samples - call.current_value[2] = 1
    /\ call.perm_range.int = 1
    /\ ret.status = "AssertionError"

\* C18: get_realisations, permute_replications and permute_samples, given a
\* variable-list argument that is not a list, raise TypeError, return
\* nothing and leave the object as it was.
C18_NonListRejected ==
    (ExtractionCall /\ call.idx_list.type # "list") =>
        /\ ret.status = "TypeError"
        /\ ret.value = None
        /\ obj = old

\* a tuple holding a variable that a list could hold, handed to
\* permute_samples
C18_Witness ==
    /\ call.op = "permute_samples"
    /\ call.idx_list = [type |-> "tuple", items |-> <<<<0, 0>>>>]
    /\ call.current_value = <<0, 1>>
    /\ call.perm_range = [type |-> "str", str |-> "max"]
    /\ HoldsData(old)
    /\ ret.status = "TypeError"

\* C19: get_realisations, permute_replications and permute_samples leave the
\* Data object (stored array and counts) as it was, whether they return or
\* raise, and a later write to the matrix they returned leaves it so too.
C19_ObjectUntouched ==
    (ExtractionCall \/ call.op = "modify") => obj = old

\* a write to the matrix get_realisations returned for the first variable of
\* the array
C19_Witness ==
    /\ call = [op |-> "modify", of |-> "get_realisations"]
    /\ HoldsData(old)
    /\ ret.value.realisations.shape = <<8, 1>>
    /\ ret.value.realisations.val[<<0, 0>>] = old._data.val[<<0, 0, 0>>] + 1
    /\ obj._data.val[<<0, 0, 0>>] = 0

\* the sample index of the current value of the call, 0 if none was given
GivenOffset == IF call.current_value = None THEN 0 ELSE call.current_value[2]

\* C20: on an object whose counts exist, n_realisations_samples answers
\* n_samples minus the current value's sample index, n_samples if no current
\* value is given; n_realisations_repl answers n_replications;
\* n_realisations answers the product of the two.  The object is unchanged.
C20_RealisationCounts ==
    /\ (call.op = "n_realisations_samples" /\ old.has_size) =>
          /\ ret.status = "ok" /\ obj = old
          /\ ret.value = old.n_samples - GivenOffset
    /\ (call.op = "n_realisations_repl" /\ old.has_size) =>
          /\ ret.status = "ok" /\ obj = old
          /\ ret.value = old.n_replications
    /\ (call.op = "n_realisations" /\ old.has_size) =>
          /\ ret.status = "ok" /\ obj = old
          /\ ret.value = (old.n_samples - GivenOffset) * old.n_replications

C20_Witness ==
    /\ call.op = "n_realisations"
    /\ call.current_value = <<0, 1>>
    /\ old.has_size /\ old.n_samples = 3 /\ old.n_replications = 2
    /\ ret.status = "ok"
    /\ ret.value = 4

\* without a current value every sample counts
C20_NoCurrentValue ==
    /\ call.op = "n_realisations"
    /\ call.current_value = None
    /\ old.has_size /\ old.n_samples = 3 /\ old.n_replications = 2
    /\ ret.status = "ok"
    /\ ret.value = 6

\* C21: with n = S - t, every block k of n rows of the matrix
\* permute_replications returns is taken from one replication q: row k*n + j
\* holds in every column c = (p_c, o_c) the value stored[p_c, o_c + j, q],
\* and the index vector holds q for every row of the block.
C21_OneOrderForAllVariables ==
    (call.op = "permute_replications" /\ ValidRequest) =>
        LET n     == old.n_samples - call.current_value[2]
            items == call.idx_list.items
        IN  /\ ret.status = "ok"
            /\ \A k \in 0..(old.n_replications - 1) :
                  \E q \in 0..(old.n_replications - 1) :
                     \A j \in 0..(n - 1) :
                        /\ ret.value.replications_index[k * n + j + 1] = q
                        /\ \A c \in DOMAIN items :
                              ret.value.realisations.val[<<k * n + j, c - 1>>] =
                                  old._data.val[<<items[c][1], items[c][2] + j, q>>]

\* two variables of different processes, the replications in the order 1, 0
C21_Witness ==
    /\ call.op = "permute_replications" /\ ValidRequest
    /\ old.n_processes = 2 /\ old.n_samples = 4 /\ old.n_replications = 2
    /\ call.current_value = <<0, 2>>
    /\ call.idx_list.items = <<<<1, 1>>, <<0, 0>>>>
    /\ ret.status = "ok"
    /\ ret.value.replications_index = <<1, 1, 0, 0>>
    /\ Row(ret.value.realisations, 1)
           = <<old._data.val[<<1, 2, 1>>], old._data.val[<<0, 1, 1>>]>>

CanonicalInput == _reorder_data(call.data, call.dim_order)

\* the values an array holds for process p
OfProcess(a, p) == [ix \in {i \in Indices(a.shape) : i[1] = p} |-> a.val[ix]]

\* what a fresh object stores for another canonical array handed over in the
\* order of the call
StoredFor(canonical) ==
    set_data(Data(None, <<"p", "s", "r">>, TRUE).self,
             Handed(canonical, call.dim_order), call.dim_order).self._data

\* C23: with normalise=True the stored array has the shape of the canonical
\* input, and for every process p it holds the values that are stored for
\* any other input of the same shape that agrees with this one on process p.
C23_ProcessesNormalisedApart ==
    (call.op = "set_data" /\ obj.normalise) =>
        /\ ret.status = "ok"
        /\ obj._data.shape = CanonicalInput.shape
        /\ \A other \in SeriesArrays(CanonicalInput.shape) :
              \A p \in 0..(CanonicalInput.shape[1] - 1) :
                 OfProcess(other, p) = OfProcess(CanonicalInput, p)
                     => OfProcess(StoredFor(other), p) = OfProcess(obj._data, p)

\* two processes, handed over as samples x replications x processes; the
\* other process of another input holds other values, and the values stored
\* for process 0 are the same, those stored for process 1 are not
C23_Witness ==
    /\ call.op = "set_data" /\ obj.normalise
    /\ call.dim_order = <<"s", "r", "p">>
    /\ CanonicalInput = SeriesArray(<<2, 2, 2>>, <<"linear", "square">>)
    /\ ret.status = "ok"
    /\ obj._data.shape = <<2, 2, 2>>
    /\ LET other == SeriesArray(<<2, 2, 2>>, <<"linear", "constant">>)
       IN  /\ OfProcess(StoredFor(other), 0) = OfProcess(obj._data, 0)
           /\ OfProcess(StoredFor(other), 1) # OfProcess(obj._data, 1)

\* the object an estimate_mult call was made on
EstimatingObject == obj.objects[call.self]

\* a request the description of estimate_mult covers: an object with an
\* estimator name whose class answers is_parallel and estimate, re-used
\* variables that are among the data and hold one chunk, and sliced variables
\* that hold n_chunks chunks
ChunkedRequest ==
    /\ call.op = "estimate_mult"
    /\ EstimatingObject.has_name
    /\ class_attribute(obj, EstimatingObject.cls, "is_parallel").set
    /\ class_attribute(obj, EstimatingObject.cls, "estimate").set
    /\ \A k \in DOMAIN call.data :
          call.data[k].shape[1] =
              IF k \in Range(call.re_use) THEN call.chunk_size
              ELSE call.n_chunks * call.chunk_size
    /\ Range(call.re_use) \subseteq DOMAIN call.data

\* C24: estimate_mult returns, and what it returns covers n_chunks chunks,
\* for a parallel and for a non-parallel estimator.
C24_OneValuePerChunk ==
    ChunkedRequest =>
        /\ ret.status = "ok"
        /\ ret.value.n_chunks = call.n_chunks

\* what estimate_mult does for such a request: it raises TypeError, on the
\* parallel path when the estimator is called, on the other path at the
\* first key of the data
EstimateMultRaises ==
    ChunkedRequest => ret.status = "TypeError"

\* the function the estimate of object o invokes in a state
EstimateOf(state, o) == class_attribute(state, state.objects[o].cls, "estimate")

\* the function named by the estimator_name of object o, as its class
\* attaches it
NamedEstimate(state, o) ==
    MethodType([module |-> module_of(state.objects[o].cls),
                name   |-> state.objects[o].estimator_name],
               state.objects[o].cls)

\* C25: a construction leaves the estimate of every earlier object the
\* function named by that object's own estimator_name.
C25_EarlierEstimateKept ==
    [][call'.op = "construct" =>
          \A o \in DOMAIN obj.objects :
             (obj.objects[o].has_name /\ EstimateOf(obj, o) = NamedEstimate(obj, o))
                 => EstimateOf(obj', o) = NamedEstimate(obj', o)]_vars

\* what the code keeps instead: a construction that finds its estimator
\* makes it the estimate of every object of the class, and every
\* construction ends in NameError or AttributeError
ConstructionSetsClassEstimate ==
    (call.op = "construct" /\ ret.status # "AttributeError") =>
        /\ ret.status = "NameError"
        /\ \A o \in DOMAIN obj.objects :
              obj.objects[o].cls = call.cls =>
                  EstimateOf(obj, o) =
                      MethodType([module |-> module_of(call.cls),
                                  name   |-> call.estimator_name], call.cls)

=============================================================================
